---- MODULE Spec2Model ----
(***************************************************************************)
(* Heart Disease Prediction API (src/main.py).                             *)
(*                                                                         *)
(* The process loads a model artifact once, at import, and then serves     *)
(* five routes.  Every handler is a coroutine without an await in its      *)
(* body, so a handler runs to completion on the event loop before another  *)
(* one starts: a request moves through receive -> (body validation) ->     *)
(* handler -> response, and the handler step is atomic.                    *)
(*                                                                         *)
(* Numbers: a probability is kept in hundredths (0.8 is 80), the accuracy  *)
(* in ten-thousandths.  The model is an opaque collaborator: what it       *)
(* answers for a record, whether it raises on a record and whether it      *)
(* accepts a frame without rows are fixed by the artifact that was loaded. *)
(* The wall-clock timestamp of /health is not program state and is left    *)
(* out of its payload.                                                     *)
(***************************************************************************)
EXTENDS Integers, Sequences, FiniteSets, TLC

VARIABLES
    proc,       \* "starting" | "running" | "crashed"
    artifact,   \* heart_disease_model.pkl as found on disk
    model,      \* the module-level name `model`
    phase,      \* "idle" | "received" | "validated" | "responded"
    req,        \* the request being served: [endpoint, body]
    args,       \* the handler's parsed argument (a sequence of typed records)
    resp,       \* the response: [status, detail, payload]
    handlerRan, \* whether the route's handler body was entered for req
    calls,      \* how often req's handler called model.predict / predict_proba
    faulted     \* history: a request of this process was answered 500

vars == <<proc, artifact, model, phase, req, args, resp, handlerRan, calls, faulted>>

-----------------------------------------------------------------------------
(* Bounds *)

NumRecords == 2     \* distinct valid patient records
MaxBatch == 2       \* longest batch body

(* Thresholds of the confidence banding, in hundredths *)
HighThreshold == 80
MediumThreshold == 60

RecordIds == 1 .. NumRecords

\* positive-class probabilities a model may answer, in hundredths
Probs == {55, 60, 80, 85}
Labels == {0, 1}

-----------------------------------------------------------------------------
(* HeartDiseaseInput: the 13-field schema *)

FeatureNames ==
    << "age", "sex", "cp", "trestbps", "chol", "fbs", "restecg",
       "thalach", "exang", "oldpeak", "slope", "ca", "thal" >>

Fields == { FeatureNames[i] : i \in 1 .. Len(FeatureNames) }

FieldType(f) == IF f = "oldpeak" THEN "float" ELSE "int"

\* JSON values of a request body
Num(n) == [kind |-> "number", val |-> n]
Text == [kind |-> "string", val |-> 0]      \* a non-numeric string

\* the JSON object of patient i (patients differ in age)
SampleBody(i) == [f \in Fields |-> Num(IF f = "age" THEN i ELSE 1)]

\* a body with field f left out
Without(body, f) == [g \in (DOMAIN body) \ {f} |-> body[g]]

ValidBodies == { SampleBody(i) : i \in RecordIds }

InvalidBodies ==
    { [SampleBody(1) EXCEPT !["age"] = Text],
      [SampleBody(1) EXCEPT !["oldpeak"] = Text],
      Without(SampleBody(1), "thal") }

Bodies == ValidBodies \cup InvalidBodies

RECURSIVE SeqsUpTo(_, _)
SeqsUpTo(S, n) ==
    IF n = 0 THEN { <<>> }
    ELSE LET shorter == SeqsUpTo(S, n - 1)
         IN  shorter \cup { Append(s, x) : s \in { t \in shorter : Len(t) = n - 1 }, x \in S }

BatchBodies == SeqsUpTo(Bodies, MaxBatch)

\* pydantic: every field present and a number
FieldOk(body, f) == f \in DOMAIN body /\ body[f].kind = "number"

\* mutant: the field types are not checked
ValidatesPresenceOnly(body) == \A f \in Fields : f \in DOMAIN body

Validates(body) == \A f \in Fields : FieldOk(body, f)

\* pydantic: the typed record built from a body that validates
ParseRecord(body) ==
    [f \in Fields |-> [type |-> FieldType(f), val |-> body[f].val]]

RecordId(rec) == CHOOSE i \in RecordIds : ParseRecord(SampleBody(i)) = rec

-----------------------------------------------------------------------------
(* The model collaborator *)

RaiseOutcome == [kind |-> "raise", label |-> 0, p |-> 0]

Outcomes ==
    { RaiseOutcome } \cup
    { [kind |-> "ok", label |-> l, p |-> p] : l \in Labels, p \in Probs }

\* `model = None`
None == [loaded |-> FALSE,
         outcome |-> [i \in RecordIds |-> RaiseOutcome],
         accepts_empty |-> FALSE]

Models ==
    { [loaded |-> TRUE, outcome |-> o, accepts_empty |-> e] :
        o \in [RecordIds -> Outcomes], e \in BOOLEAN }

\* pd.DataFrame(rows) handed to model.predict: one vectorised call.
\* The answer is [ok, value, msg].
ModelPredict(m, rows) ==
    IF rows = <<>>
    THEN IF m.accepts_empty
         THEN [ok |-> TRUE, value |-> <<>>, msg |-> ""]
         ELSE [ok |-> FALSE, value |-> <<>>, msg |-> "0 samples"]
    ELSE IF \E i \in 1 .. Len(rows) : m.outcome[RecordId(rows[i])].kind = "raise"
         THEN [ok |-> FALSE, value |-> <<>>, msg |-> "model fault"]
         ELSE [ok |-> TRUE,
               value |-> [i \in 1 .. Len(rows) |-> m.outcome[RecordId(rows[i])].label],
               msg |-> ""]

\* model.predict_proba(frame)[:, 1]
ModelPredictProba(m, rows) ==
    IF rows = <<>>
    THEN IF m.accepts_empty
         THEN [ok |-> TRUE, value |-> <<>>, msg |-> ""]
         ELSE [ok |-> FALSE, value |-> <<>>, msg |-> "0 samples"]
    ELSE IF \E i \in 1 .. Len(rows) : m.outcome[RecordId(rows[i])].kind = "raise"
         THEN [ok |-> FALSE, value |-> <<>>, msg |-> "model fault"]
         ELSE [ok |-> TRUE,
               value |-> [i \in 1 .. Len(rows) |-> m.outcome[RecordId(rows[i])].p],
               msg |-> ""]

-----------------------------------------------------------------------------
(* Responses *)

NoPayload == [none |-> TRUE]

Ok(payload) == [status |-> 200, detail |-> <<>>, payload |-> payload]

HTTPException(status, detail) ==
    [status |-> status, detail |-> detail, payload |-> NoPayload]

\* the request-validation layer's own answer
ValidationError == HTTPException(422, << "validation error" >>)

NoResponse == [status |-> 0, detail |-> <<>>, payload |-> NoPayload]
NoRequest == [endpoint |-> "none", body |-> <<>>]
NoCalls == [predict |-> 0, proba |-> 0]

\* the routes the decorators register
Routes == { "/", "/health", "/model-info", "/predict", "/predict-batch" }

\* the keys of the "endpoints" object root() returns
RootEndpoints == { "/predict", "/model-info", "/health" }

-----------------------------------------------------------------------------
(* Handlers, as functions of the module-level model and the parsed argument. *)
(* Each answers [resp, calls].                                               *)

RootResult ==
    Ok([message |-> "Heart Disease Prediction API",
        version |-> "1.0.0",
        endpoints |-> RootEndpoints])

HealthResult(m) ==
    Ok([status |-> "healthy", model_loaded |-> m.loaded])

ModelInfoResult(m) ==
    IF ~m.loaded
    THEN HTTPException(503, << "Model not loaded" >>)
    ELSE Ok([model_type |-> "Logistic Regression",
             accuracy |-> 8852,
             features |-> FeatureNames,
             description |-> "Logistic Regression model trained on UCI Heart Disease dataset with 88.52% accuracy"])

\* mutant: the bands closed at their lower ends
ConfidenceLevelInclusive(p) ==
    IF p >= HighThreshold THEN "High"
    ELSE IF p >= MediumThreshold THEN "Medium"
    ELSE "Low"

\* predict_heart_disease: if / elif / else
ConfidenceLevel(p) ==
    IF p > HighThreshold THEN "High"
    ELSE IF p > MediumThreshold THEN "Medium"
    ELSE "Low"

\* predict_batch: the conditional expression of the loop body
BatchConfidence(p) ==
    IF p > HighThreshold THEN "High"
    ELSE IF p > MediumThreshold THEN "Medium" ELSE "Low"

\* the try block of predict_heart_disease, with its except clause
PredictTry(m, rec) ==
    LET input_df == << rec >>
        predicted == ModelPredict(m, input_df)
    IN
    IF ~predicted.ok
    THEN [resp |-> HTTPException(500, << "Prediction error: ", predicted.msg >>),
          calls |-> [predict |-> 1, proba |-> 0]]
    ELSE
      LET proba == ModelPredictProba(m, input_df)
      IN
      IF ~proba.ok
      THEN [resp |-> HTTPException(500, << "Prediction error: ", proba.msg >>),
            calls |-> [predict |-> 1, proba |-> 1]]
      ELSE
        LET prediction == predicted.value[1]
            probability == proba.value[1]
        IN  [resp |-> Ok([prediction |-> prediction,
                          probability |-> probability,
                          confidence |-> ConfidenceLevel(probability)]),
             calls |-> [predict |-> 1, proba |-> 1]]

\* mutant: the model check made inside the try block, so that the except
\* clause turns its 503 into a 500
PredictResultGuardInTry(m, rec) ==
    IF ~m.loaded
    THEN [resp |-> HTTPException(500, << "Prediction error: ", "Model not loaded" >>),
          calls |-> NoCalls]
    ELSE PredictTry(m, rec)

\* mutant: the label derived from the probability by a 0.5 cutoff
PredictResultThresholded(m, rec) ==
    IF ~m.loaded
    THEN [resp |-> HTTPException(503, << "Model not loaded" >>), calls |-> NoCalls]
    ELSE LET r == PredictTry(m, rec)
         IN  IF r.resp.status # 200 THEN r
             ELSE [r EXCEPT !.resp.payload.prediction =
                              IF r.resp.payload.probability > 50 THEN 1 ELSE 0]

PredictResult(m, rec) ==
    IF ~m.loaded
    THEN [resp |-> HTTPException(503, << "Model not loaded" >>), calls |-> NoCalls]
    ELSE PredictTry(m, rec)

\* the "Format results" loop over zip(predictions, probabilities)
BatchResults(predictions, probabilities) ==
    [i \in 1 .. Len(predictions) |->
        [patient_id |-> i,
         prediction |-> predictions[i],
         probability |-> probabilities[i],
         confidence |-> BatchConfidence(probabilities[i])]]

\* mutant: the rows are scored one by one and the rows before a fault are kept
RECURSIVE ScoredPrefix(_, _, _)
ScoredPrefix(m, rows, i) ==
    IF i > Len(rows) \/ m.outcome[RecordId(rows[i])].kind = "raise"
    THEN <<>>
    ELSE << [patient_id |-> i,
             prediction |-> m.outcome[RecordId(rows[i])].label,
             probability |-> m.outcome[RecordId(rows[i])].p,
             confidence |-> BatchConfidence(m.outcome[RecordId(rows[i])].p)] >>
         \o ScoredPrefix(m, rows, i + 1)

PredictBatchResultPartial(m, rows) ==
    IF ~m.loaded
    THEN [resp |-> HTTPException(503, << "Model not loaded" >>), calls |-> NoCalls]
    ELSE LET results == ScoredPrefix(m, rows, 1)
         IN  [resp |-> Ok([predictions |-> results, total_patients |-> Len(results)]),
              calls |-> [predict |-> 1, proba |-> 1]]

PredictBatchResult(m, rows) ==
    IF ~m.loaded
    THEN [resp |-> HTTPException(503, << "Model not loaded" >>), calls |-> NoCalls]
    ELSE
      LET input_df == rows
          predictions == ModelPredict(m, input_df)
      IN
      IF ~predictions.ok
      THEN [resp |-> HTTPException(500, << "Batch prediction error: ", predictions.msg >>),
            calls |-> [predict |-> 1, proba |-> 0]]
      ELSE
        LET probabilities == ModelPredictProba(m, input_df)
        IN
        IF ~probabilities.ok
        THEN [resp |-> HTTPException(500, << "Batch prediction error: ", probabilities.msg >>),
              calls |-> [predict |-> 1, proba |-> 1]]
        ELSE
          LET results == BatchResults(predictions.value, probabilities.value)
          IN  [resp |-> Ok([predictions |-> results, total_patients |-> Len(results)]),
               calls |-> [predict |-> 1, proba |-> 1]]

-----------------------------------------------------------------------------
(* Startup *)

Artifacts ==
    { [kind |-> "missing", content |-> None],
      [kind |-> "corrupt", content |-> None] }
    \cup { [kind |-> "valid", content |-> m] : m \in Models }

Init ==
    /\ proc = "starting"
    /\ artifact \in Artifacts
    /\ model = None
    /\ phase = "idle"
    /\ req = NoRequest
    /\ args = <<>>
    /\ resp = NoResponse
    /\ handlerRan = FALSE
    /\ calls = NoCalls
    /\ faulted = FALSE

\* try: model = joblib.load(...)  except FileNotFoundError: model = None
\* Any other exception leaves the module import, and the process ends.
LoadModel ==
    /\ proc = "starting"
    /\ proc' = IF artifact.kind = "corrupt" THEN "crashed" ELSE "running"
    /\ model' = IF artifact.kind = "valid" THEN artifact.content ELSE None
    /\ UNCHANGED <<artifact, phase, req, args, resp, handlerRan, calls, faulted>>

-----------------------------------------------------------------------------
(* Serving one request *)

Receive ==
    /\ proc = "running"
    /\ phase = "idle"
    /\ \E e \in Routes :
         \E b \in (IF e = "/predict" THEN Bodies
                   ELSE IF e = "/predict-batch" THEN BatchBodies
                   ELSE { <<>> }) :
            req' = [endpoint |-> e, body |-> b]
    /\ phase' = "received"
    /\ args' = <<>>
    /\ resp' = NoResponse
    /\ handlerRan' = FALSE
    /\ calls' = NoCalls
    /\ UNCHANGED <<proc, artifact, model, faulted>>

\* FastAPI builds the handler's argument from the body before it calls the
\* handler; a body that does not validate is answered with 422 there.
BodyValid ==
    IF req.endpoint = "/predict"
    THEN Validates(req.body)
    ELSE \A i \in 1 .. Len(req.body) : Validates(req.body[i])

ParsedArgs ==
    IF req.endpoint = "/predict"
    THEN << ParseRecord(req.body) >>
    ELSE [i \in 1 .. Len(req.body) |-> ParseRecord(req.body[i])]

ValidateBody ==
    /\ proc = "running"
    /\ phase = "received"
    /\ req.endpoint \in { "/predict", "/predict-batch" }
    /\ IF BodyValid
       THEN /\ phase' = "validated"
            /\ args' = ParsedArgs
            /\ resp' = resp
       ELSE /\ phase' = "responded"
            /\ args' = args
            /\ resp' = ValidationError
    /\ UNCHANGED <<proc, artifact, model, req, handlerRan, calls, faulted>>

Root ==
    /\ proc = "running"
    /\ phase = "received"
    /\ req.endpoint = "/"
    /\ resp' = RootResult
    /\ phase' = "responded"
    /\ handlerRan' = TRUE
    /\ UNCHANGED <<proc, artifact, model, req, args, calls, faulted>>

HealthCheck ==
    /\ proc = "running"
    /\ phase = "received"
    /\ req.endpoint = "/health"
    /\ resp' = HealthResult(model)
    /\ phase' = "responded"
    /\ handlerRan' = TRUE
    /\ UNCHANGED <<proc, artifact, model, req, args, calls, faulted>>

GetModelInfo ==
    /\ proc = "running"
    /\ phase = "received"
    /\ req.endpoint = "/model-info"
    /\ resp' = ModelInfoResult(model)
    /\ phase' = "responded"
    /\ handlerRan' = TRUE
    /\ UNCHANGED <<proc, artifact, model, req, args, calls, faulted>>

\* mutant: a failed prediction marks the model as unusable
PredictDropsModel ==
    /\ proc = "running"
    /\ phase = "validated"
    /\ req.endpoint = "/predict"
    /\ resp' = PredictResult(model, args[1]).resp
    /\ calls' = PredictResult(model, args[1]).calls
    /\ model' = IF PredictResult(model, args[1]).resp.status = 500 THEN None ELSE model
    /\ phase' = "responded"
    /\ handlerRan' = TRUE
    /\ UNCHANGED <<proc, artifact, req, args, faulted>>

Predict ==
    /\ proc = "running"
    /\ phase = "validated"
    /\ req.endpoint = "/predict"
    /\ resp' = PredictResult(model, args[1]).resp
    /\ calls' = PredictResult(model, args[1]).calls
    /\ phase' = "responded"
    /\ handlerRan' = TRUE
    /\ UNCHANGED <<proc, artifact, model, req, args, faulted>>

PredictBatch ==
    /\ proc = "running"
    /\ phase = "validated"
    /\ req.endpoint = "/predict-batch"
    /\ resp' = PredictBatchResult(model, args).resp
    /\ calls' = PredictBatchResult(model, args).calls
    /\ phase' = "responded"
    /\ handlerRan' = TRUE
    /\ UNCHANGED <<proc, artifact, model, req, args, faulted>>

\* the response is sent and the request's frame is gone
SendResponse ==
    /\ proc = "running"
    /\ phase = "responded"
    /\ phase' = "idle"
    /\ req' = NoRequest
    /\ args' = <<>>
    /\ resp' = NoResponse
    /\ handlerRan' = FALSE
    /\ calls' = NoCalls
    /\ faulted' = (faulted \/ resp.status = 500)
    /\ UNCHANGED <<proc, artifact, model>>

Next ==
    \/ LoadModel
    \/ Receive
    \/ ValidateBody
    \/ Root
    \/ HealthCheck
    \/ GetModelInfo
    \/ Predict
    \/ PredictBatch
    \/ SendResponse

Spec == Init /\ [][Next]_vars

-----------------------------------------------------------------------------
(* Properties *)

Responded(e) == phase = "responded" /\ req.endpoint = e

\* a body the 13-field schema rejects: a field is missing or is not a number
SchemaRejects(body) ==
    \E f \in Fields : f \notin DOMAIN body \/ body[f].kind # "number"

RequestRejected ==
    /\ req.endpoint \in { "/predict", "/predict-batch" }
    /\ IF req.endpoint = "/predict"
       THEN SchemaRejects(req.body)
       ELSE \E i \in 1 .. Len(req.body) : SchemaRejects(req.body[i])

ModelNotLoaded == HTTPException(503, << "Model not loaded" >>)

\* what the model answers for the i-th record of the handler's argument
Answer(i) == model.outcome[RecordId(args[i])]

\* C1: with the model absent, /model-info, /predict and /predict-batch answer
\* every request that reaches them with the 503 "Model not loaded" (never a
\* 500) and do not call the model, while /health answers 200 with
\* model_loaded = FALSE.
C1_ModelUnavailable ==
    (phase = "responded" /\ ~model.loaded) =>
        /\ req.endpoint = "/model-info" => resp = ModelNotLoaded
        /\ (req.endpoint \in { "/predict", "/predict-batch" } /\ ~RequestRejected) =>
              (resp = ModelNotLoaded /\ handlerRan /\ calls = NoCalls)
        /\ req.endpoint = "/health" =>
              (resp.status = 200 /\ resp.payload.model_loaded = FALSE)

C1_Witness ==
    /\ Responded("/predict")
    /\ ~model.loaded
    /\ handlerRan
    /\ resp.status = 503

\* C2: whatever makes the load fail (a missing file, a corrupt or unreadable
\* one), the process starts and runs with an absent model.
C2_AnyLoadFailureIsNonFatal ==
    (proc # "starting" /\ artifact.kind # "valid") =>
        (proc = "running" /\ ~model.loaded)

\* C3: with a model loaded, /predict-batch on the empty list answers 200 with
\* total_patients = 0 and no predictions.
C3_EmptyBatchSucceeds ==
    (Responded("/predict-batch") /\ model.loaded /\ req.body = <<>>) =>
        resp = Ok([predictions |-> <<>>, total_patients |-> 0])

\* C4: with a model loaded, /predict-batch on N valid records (each of which
\* /predict alone answers with 200) answers 200 with total_patients = N and N
\* results, patient_id 1..N in input order, the i-th carrying the prediction,
\* probability and confidence /predict gives for the i-th record alone.
C4_BatchMatchesSingle ==
    (/\ Responded("/predict-batch")
     /\ model.loaded
     /\ ~RequestRejected
     /\ \A i \in 1 .. Len(args) : PredictResult(model, args[i]).resp.status = 200)
    =>
        /\ resp.status = 200
        /\ resp.payload.total_patients = Len(req.body)
        /\ Len(resp.payload.predictions) = Len(req.body)
        /\ \A i \in 1 .. Len(req.body) :
             LET one == PredictResult(model, ParseRecord(req.body[i])).resp.payload
                 got == resp.payload.predictions[i]
             IN  /\ got.patient_id = i
                 /\ got.prediction = one.prediction
                 /\ got.probability = one.probability
                 /\ got.confidence = one.confidence

\* the part of C4 the code does keep: the same for every batch of at least
\* one record
NonEmptyBatchMatchesSingle ==
    (Responded("/predict-batch") /\ req.body # <<>>) => C4_BatchMatchesSingle

\* the banding rule as the claim words it, p in hundredths
InBand(p, label) ==
    /\ p > 80 => label = "High"
    /\ (60 < p /\ p <= 80) => label = "Medium"
    /\ p <= 60 => label = "Low"

\* C5: in /predict and in /predict-batch the confidence is fixed by the
\* positive-class probability alone: above 0.8 "High", above 0.6 and up to
\* 0.8 "Medium", up to 0.6 "Low" (0.8 itself "Medium", 0.6 itself "Low"),
\* whatever the prediction is.
C5_ConfidenceBands ==
    /\ (Responded("/predict") /\ resp.status = 200) =>
          /\ resp.payload.probability = Answer(1).p
          /\ InBand(resp.payload.probability, resp.payload.confidence)
    /\ (Responded("/predict-batch") /\ resp.status = 200) =>
          \A i \in 1 .. Len(resp.payload.predictions) :
             /\ resp.payload.predictions[i].probability = Answer(i).p
             /\ InBand(resp.payload.predictions[i].probability,
                       resp.payload.predictions[i].confidence)

C5_Witness ==
    /\ Responded("/predict-batch")
    /\ resp.status = 200
    /\ Len(resp.payload.predictions) = 2
    /\ resp.payload.predictions[1].probability = 80
    /\ resp.payload.predictions[1].confidence = "Medium"
    /\ resp.payload.predictions[1].prediction = 0
    /\ resp.payload.predictions[2].probability = 60
    /\ resp.payload.predictions[2].confidence = "Low"
    /\ resp.payload.predictions[2].prediction = 1

\* the message of the exception the model raises on the handler's argument
ModelFaults ==
    IF args = <<>>
    THEN ~model.accepts_empty
    ELSE \E i \in 1 .. Len(args) : Answer(i).kind = "raise"

FaultMessage == IF args = <<>> THEN "0 samples" ELSE "model fault"

C6_FaultAnswered ==
    /\ (Responded("/predict") /\ handlerRan /\ model.loaded /\ ModelFaults) =>
          resp = HTTPException(500, << "Prediction error: ", FaultMessage >>)
    /\ (Responded("/predict-batch") /\ handlerRan /\ model.loaded) =>
          /\ ModelFaults =>
                resp = HTTPException(500, << "Batch prediction error: ", FaultMessage >>)
          /\ resp.status = 200 =>
                Len(resp.payload.predictions) = Len(req.body)
          /\ resp.status \in { 200, 500 }

\* C6: an exception of the model in /predict or /predict-batch is answered
\* with a 500 that carries its message; a batch answers either the full list
\* or that single error; and the process keeps running with the same model,
\* so that later requests are served as before.
C6_ModelFaultIsA500 ==
    [][ proc = "running" =>
          /\ proc' = "running"
          /\ model' = model
          /\ C6_FaultAnswered'
          /\ (phase = "responded" /\ resp.status = 500) => phase' = "idle"
      ]_vars

C6_Witness ==
    /\ Responded("/predict-batch")
    /\ faulted
    /\ Len(args) = 2
    /\ Answer(1).kind = "ok"
    /\ Answer(2).kind = "raise"
    /\ resp.status = 500
    /\ proc = "running"

\* C7: a /predict or /predict-batch body that the schema rejects (in any
\* record of a batch) is answered 422 before the handler runs: the handler
\* is never entered and model.predict and model.predict_proba are not called.
C7_InvalidBodyRejected ==
    RequestRejected =>
        /\ phase # "validated"
        /\ ~handlerRan
        /\ calls = NoCalls
        /\ phase = "responded" => resp = ValidationError

C7_Witness ==
    /\ Responded("/predict-batch")
    /\ Len(req.body) = 2
    /\ ~SchemaRejects(req.body[1])
    /\ SchemaRejects(req.body[2])
    /\ resp.status = 422
    /\ model.loaded

\* C8: the prediction answered is the label of the model's own predictor for
\* that record, not a threshold on p: a model that predicts 1 with
\* probability 0.55 is answered with prediction = 1 and confidence "Low".
C8_PredictionIsModelLabel ==
    /\ (Responded("/predict") /\ resp.status = 200) =>
          /\ resp.payload.prediction = Answer(1).label
          /\ (Answer(1).label = 1 /\ Answer(1).p = 55) =>
                (resp.payload.prediction = 1 /\ resp.payload.confidence = "Low")
    /\ (Responded("/predict-batch") /\ resp.status = 200) =>
          \A i \in 1 .. Len(resp.payload.predictions) :
             resp.payload.predictions[i].prediction = Answer(i).label

C8_Witness ==
    /\ Responded("/predict")
    /\ handlerRan
    /\ Answer(1).label = 1
    /\ Answer(1).p = 55
    /\ resp = Ok([prediction |-> 1, probability |-> 55, confidence |-> "Low"])

\* the model the startup code binds for an artifact
LoadedFrom(a) == IF a.kind = "valid" THEN a.content ELSE None

\* the answer of a route as a function of the model and the request alone
AnswerOf(m, r) ==
    IF r.endpoint = "/predict"
    THEN PredictResult(m, ParseRecord(r.body)).resp
    ELSE PredictBatchResult(m, [i \in 1 .. Len(r.body) |-> ParseRecord(r.body[i])]).resp

C10_RootListsOperations ==
    Responded("/") =>
        /\ resp.status = 200
        /\ resp.payload.endpoints = Routes \ { "/" }

====
